---- MODULE Spec2Model ----
(***************************************************************************)
(* A model of nsls2/io/avizo_io.py: the AmiraMesh reader.                  *)
(*                                                                         *)
(*   _read_amira              the raw splitter   (specification SpecRead)  *)
(*   _sort_amira_header       the tokenizer      (specification SpecSort)  *)
(*   _create_md_dict          the extractor      (specification SpecMd)    *)
(*   _cnvrt_amira_data_2numpy the decoder        (specification SpecCnvrt) *)
(*                                                                         *)
(* The module is Python 2 code (filter() returns a list, str is a byte     *)
(* string) written against the numpy of 2013.  Python indexes from 0, TLA+ *)
(* sequences from 1: token t[i + 2] of the code is tokens[i + 2] here with *)
(* i the 1-based position of the keyword.                                  *)
(***************************************************************************)
EXTENDS Integers, Sequences, FiniteSets, TLC

VARIABLES
    \* _read_amira
    file,        \* the lines of the file at src_file, as readline() yields them
    fpos,        \* how many of them the file object f has consumed
    am_header,   \* the list am_header
    am_data,     \* the rest of the file, f.read(): the lines not yet consumed
    rpc,         \* "scan" inside the while loop, "done" after the return
    \* _sort_amira_header
    raw_header,  \* the argument header_list: raw lines, each a sequence of characters
    tok_header,  \* the value returned
    spc,         \* "call" before, "done" after
    \* _create_md_dict
    header_list, \* the argument: a sequence of token lists
    md_dict,     \* the dictionary md_dict, keys to <<>> (absent) or <<value>>
    row,         \* the loop variable, 0-based as in the code
    mpc,         \* "init", "loop", "done" or "IndexError"
    \* _cnvrt_amira_data_2numpy
    payload,     \* the argument am_data: a sequence of byte values
    header_dict, \* the argument header_dict
    output       \* output[flip_Z]: the outcome of the call made with that flip_Z

readVars  == <<file, fpos, am_header, am_data, rpc>>
sortVars  == <<raw_header, tok_header, spc>>
mdVars    == <<header_list, md_dict, row, mpc>>
cnvrtVars == <<payload, header_dict, output>>
vars      == <<readVars, sortVars, mdVars, cnvrtVars>>

-----------------------------------------------------------------------------
(* Helpers on sequences.                                                   *)

Range(s) == {s[i] : i \in 1..Len(s)}

\* All sequences over S of length at most n.
SeqUpTo(S, n) == UNION {[1..k -> S] : k \in 0..n}

\* s without its first n elements.
Drop(s, n) == SubSeq(s, n + 1, Len(s))

-----------------------------------------------------------------------------
(* _read_amira                                                             *)

MaxFileLines == 3
MaxHeaderLen == 5

Sentinel == "# Data section follows\n"

\* Lines a file may hold.  readline() returns a line with its "\n"; only the
\* last line of a file can lack it.
TerminatedLines   == {Sentinel, "\n", "@1\n", "define Lattice 1 1 1\n"}
UnterminatedLines == {"# Data section follows", "data"}

Files ==
    {f \in SeqUpTo(TerminatedLines \cup UnterminatedLines, MaxFileLines) :
        \A i \in 1..Len(f) : f[i] \in UnterminatedLines => i = Len(f)}

\* f.readline() with n lines consumed: the next line, or '' at end of file.
ReadLine(f, n) == IF n < Len(f) THEN f[n + 1] ELSE ""

\* The position of f after one more readline().
Advance(f, n) == IF n < Len(f) THEN n + 1 ELSE n

InitRead ==
    /\ file \in Files
    /\ fpos = 0
    /\ am_header = <<>>
    /\ am_data = <<>>
    /\ rpc = "scan"

IdleRead ==
    /\ file = <<>>
    /\ fpos = 0
    /\ am_header = <<>>
    /\ am_data = <<>>
    /\ rpc = "idle"

\* One iteration of the while loop that does not meet the sentinel: the line
\* read, '' at end of file included, is appended and the loop goes on.
ScanLine ==
    /\ rpc = "scan"
    /\ Len(am_header) < MaxHeaderLen
    /\ ReadLine(file, fpos) # Sentinel
    /\ am_header' = Append(am_header, ReadLine(file, fpos))
    /\ fpos' = Advance(file, fpos)
    /\ UNCHANGED <<file, am_data, rpc>>

\* The iteration that reads the sentinel: one more line is read and dropped,
\* the rest of the file is am_data, and the function returns.
ScanSentinel ==
    /\ rpc = "scan"
    /\ Len(am_header) < MaxHeaderLen
    /\ ReadLine(file, fpos) = Sentinel
    /\ am_header' = Append(am_header, Sentinel)
    /\ fpos' = Len(file)
    /\ am_data' = Drop(file, Advance(file, Advance(file, fpos)))
    /\ rpc' = "done"
    /\ UNCHANGED file

NextRead ==
    \/ ScanLine /\ UNCHANGED <<sortVars, mdVars, cnvrtVars>>
    \/ ScanSentinel /\ UNCHANGED <<sortVars, mdVars, cnvrtVars>>

-----------------------------------------------------------------------------
(* _sort_amira_header                                                      *)

MaxRawLines == 2
MaxLineLen  == 2

\* The characters of a raw line: a letter, a space, a tab and a newline.
Chars == {"a", " ", "\t", "\n"}

RawLines == SeqUpTo(Chars, MaxLineLen)

\* str.lstrip(c) and str.rstrip(c)
RECURSIVE LStrip(_, _)
LStrip(s, c) == IF s # <<>> /\ Head(s) = c THEN LStrip(Tail(s), c) ELSE s

RECURSIVE RStrip(_, _)
RStrip(s, c) ==
    IF s # <<>> /\ s[Len(s)] = c THEN RStrip(SubSeq(s, 1, Len(s) - 1), c) ELSE s

\* A variant of Strip that is str.rstrip(c): the leading c stay.
StripTrailing(s, c) == RStrip(s, c)

\* str.strip(c): c is removed from both ends.
Strip(s, c) == RStrip(LStrip(s, c), c)

\* str.split(sep) for a one-character sep: every occurrence of sep separates
\* two fields, so n occurrences give n + 1 fields, empty ones included.
RECURSIVE SplitFrom(_, _, _, _)
SplitFrom(s, sep, i, field) ==
    IF i > Len(s) THEN <<field>>
    ELSE IF s[i] = sep THEN <<field>> \o SplitFrom(s, sep, i + 1, <<>>)
    ELSE SplitFrom(s, sep, i + 1, Append(field, s[i]))

Split(s, sep) == SplitFrom(s, sep, 1, <<>>)

\* filter(None, l) of Python 2: the list of the elements of l that are true,
\* which for strings and lists means non-empty.
FilterNone(l) == SelectSeq(l, LAMBDA e : e # <<>>)

\* One row of the loop: strip("\n"), split(" "), filter(None, ...).
SortRow(line) == FilterNone(Split(Strip(line, "\n"), " "))

SortAmiraHeader(hl) == FilterNone([r \in 1..Len(hl) |-> SortRow(hl[r])])

InitSort ==
    /\ raw_header \in SeqUpTo(RawLines, MaxRawLines)
    /\ tok_header = <<>>
    /\ spc = "call"

IdleSort ==
    /\ raw_header = <<>>
    /\ tok_header = <<>>
    /\ spc = "idle"

SortHeader ==
    /\ spc = "call"
    /\ tok_header' = SortAmiraHeader(raw_header)
    /\ spc' = "done"
    /\ UNCHANGED raw_header

NextSort == SortHeader /\ UNCHANGED <<readVars, mdVars, cnvrtVars>>

-----------------------------------------------------------------------------
(* _create_md_dict                                                         *)

MaxBodyRows == 3

\* The tokenized lines a header is made of here.
MagicLine      == <<"#", "AmiraMesh", "BINARY-LITTLE-ENDIAN", "2.1">>
ShortMagicLine == <<"#", "AmiraMesh">>
DefineLine     == <<"define", "Lattice", "2", "1", "2">>
DefineLine2    == <<"define", "Lattice", "1", "2", "1">>
DefineBadLine  == <<"define", "Lattice", "2", "1.5", "2">>
ContentLine    == <<"Content", "volume", "byte">>
CoordTypeLine  == <<"CoordType", "uniform">>
BoundingLine   == <<"BoundingBox", "0", "1", "0", "1", "0", "0.5">>
UnitsLine      == <<"Parameters", "Units", "{", "mm">>
UnitsShortLine == <<"Units", "{">>
UnitsTwiceLine == <<"Units", "Units", "{", "mm">>
ContentUnits   == <<"Content", "x", "float", "Units", "{", "um">>
CoordsLine     == <<"Coordinates", "m">>
BraceLine      == <<"}">>

\* A header is empty, or a first line and at most MaxBodyRows more lines.
FirstLines == {MagicLine, ShortMagicLine, DefineLine}

BodyLines ==
    {DefineLine, DefineLine2, DefineBadLine, ContentLine, CoordTypeLine,
     BoundingLine, UnitsLine, UnitsShortLine, UnitsTwiceLine, ContentUnits,
     CoordsLine, BraceLine}

Headers ==
    {<<>>} \cup {<<first>> \o body :
                    first \in FirstLines, body \in SeqUpTo(BodyLines, MaxBodyRows)}

\* int(token): defined on the integer literals among the tokens above; on
\* every other token ("1.5", "Lattice", ...) int() raises ValueError.
IsInt(t) == t \in {"0", "1", "2"}
IntOf(t) == CASE t = "0" -> 0 [] t = "1" -> 1 [] t = "2" -> 2

\* float(token), the value in tenths; ValueError on every other token.
IsFloat(t) == t \in {"0", "1", "2", "0.5", "1.5"}
FloatOf(t) ==
    CASE t = "0" -> 0 [] t = "1" -> 10 [] t = "2" -> 20
      [] t = "0.5" -> 5 [] t = "1.5" -> 15

\* list.index(kw), 1-based: the first position of kw in tokens; 0 stands for
\* the ValueError raised when kw is not in the list.
Index(tokens, kw) ==
    IF \E p \in 1..Len(tokens) : tokens[p] = kw
    THEN CHOOSE p \in 1..Len(tokens) :
            /\ tokens[p] = kw
            /\ \A q \in 1..(p - 1) : tokens[q] # kw
    ELSE 0

\* Whether the try block of a keyword runs to its end on a line: the keyword
\* is there, the tokens it reads exist and int() or float() accepts them.
DefineOk(t) ==
    LET i == Index(t, "define") IN
    /\ i > 0
    /\ i + 4 <= Len(t)
    /\ \A d \in 2..4 : IsInt(t[i + d])

ContentOk(t) == LET i == Index(t, "Content") IN i > 0 /\ i + 2 <= Len(t)

CoordTypeOk(t) == LET i == Index(t, "CoordType") IN i > 0 /\ i + 1 <= Len(t)

BoundingBoxOk(t) ==
    LET i == Index(t, "BoundingBox") IN
    /\ i > 0
    /\ i + 6 <= Len(t)
    /\ \A d \in 1..6 : IsFloat(t[i + d])

UnitsOk(t) == LET i == Index(t, "Units") IN i > 0 /\ i + 2 <= Len(t)

\* A dictionary is a record of its possible keys, each <<>> when the key is
\* absent and <<value>> when it is present.
EmptyDict ==
    [software_src |-> <<>>, data_format |-> <<>>, data_format_version |-> <<>>,
     array_dimensions |-> <<>>, data_type |-> <<>>, coord_type |-> <<>>,
     bounding_box |-> <<>>, units |-> <<>>, coordinates |-> <<>>]

\* Lines 170-173 raise IndexError unless the first line has four tokens.
FirstLineOk(hl) == Len(hl) >= 1 /\ Len(hl[1]) >= 4

FirstLineDict(hl) ==
    [EmptyDict EXCEPT !.software_src = <<hl[1][2]>>,
                      !.data_format = <<hl[1][3]>>,
                      !.data_format_version = <<hl[1][4]>>]

\* A variant of SetCoordinates that takes the first token of the next line.
SetCoordinatesFirstToken(md, hl, r) ==
    IF r + 2 <= Len(hl) /\ Len(hl[r + 2]) >= 1
    THEN [md EXCEPT !.coordinates = <<hl[r + 2][1]>>]
    ELSE md

\* The last statement of the innermost try: md_dict['coordinates'] =
\* header_list[row + 1][1], which raises IndexError (caught: continue) when
\* there is no next line or it has fewer than two tokens.  r is 0-based.
SetCoordinates(md, hl, r) ==
    IF r + 2 <= Len(hl) /\ Len(hl[r + 2]) >= 2
    THEN [md EXCEPT !.coordinates = <<hl[r + 2][2]>>]
    ELSE md

\* One iteration of the for loop, lines 175-239, on row r (0-based): the
\* cascade of try blocks; the first that runs to its end is the only one
\* that changes md_dict.
MdRow(md, hl, r) ==
    LET t == hl[r + 1] IN
    IF DefineOk(t) THEN
        LET i == Index(t, "define") IN
        [md EXCEPT !.array_dimensions =
            <<[x_dimension |-> IntOf(t[i + 2]),
               y_dimension |-> IntOf(t[i + 3]),
               z_dimension |-> IntOf(t[i + 4])]>>]
    ELSE IF ContentOk(t) THEN
        [md EXCEPT !.data_type = <<t[Index(t, "Content") + 2]>>]
    ELSE IF CoordTypeOk(t) THEN
        [md EXCEPT !.coord_type = <<t[Index(t, "CoordType") + 1]>>]
    ELSE IF BoundingBoxOk(t) THEN
        LET i == Index(t, "BoundingBox") IN
        [md EXCEPT !.bounding_box =
            <<[x_min |-> FloatOf(t[i + 1]), x_max |-> FloatOf(t[i + 2]),
               y_min |-> FloatOf(t[i + 3]), y_max |-> FloatOf(t[i + 4]),
               z_min |-> FloatOf(t[i + 5]), z_max |-> FloatOf(t[i + 6])]>>]
    ELSE IF UnitsOk(t) THEN
        SetCoordinates([md EXCEPT !.units = <<t[Index(t, "Units") + 2]>>], hl, r)
    ELSE md

\* A variant of LoopRows that stops one row early.
LoopRowsShort(hl) == Len(hl) - 1

\* range(len(header_list)): the rows the loop visits are 0 .. LoopRows - 1.
LoopRows(hl) == Len(hl)

RECURSIVE MdLoop(_, _, _)
MdLoop(md, hl, r) ==
    IF r >= LoopRows(hl) THEN md ELSE MdLoop(MdRow(md, hl, r), hl, r + 1)

\* The whole function: what it returns, or the exception it raises.
CreateMdDict(hl) ==
    IF FirstLineOk(hl)
    THEN [raised |-> "", dict |-> MdLoop(FirstLineDict(hl), hl, 0)]
    ELSE [raised |-> "IndexError", dict |-> EmptyDict]

InitMd ==
    /\ header_list \in Headers
    /\ md_dict = EmptyDict
    /\ row = 0
    /\ mpc = "init"

IdleMd ==
    /\ header_list = <<>>
    /\ md_dict = EmptyDict
    /\ row = 0
    /\ mpc = "idle"

\* Lines 170-173.
MdFirstLine ==
    /\ mpc = "init"
    /\ FirstLineOk(header_list)
    /\ md_dict' = FirstLineDict(header_list)
    /\ mpc' = "loop"
    /\ UNCHANGED <<header_list, row>>

MdFirstLineRaises ==
    /\ mpc = "init"
    /\ ~FirstLineOk(header_list)
    /\ mpc' = "IndexError"
    /\ UNCHANGED <<header_list, md_dict, row>>

\* One iteration of the loop.
MdRowStep ==
    /\ mpc = "loop"
    /\ row < LoopRows(header_list)
    /\ md_dict' = MdRow(md_dict, header_list, row)
    /\ row' = row + 1
    /\ UNCHANGED <<header_list, mpc>>

\* Line 240.
MdReturn ==
    /\ mpc = "loop"
    /\ row >= LoopRows(header_list)
    /\ mpc' = "done"
    /\ UNCHANGED <<header_list, md_dict, row>>

NextMd ==
    \/ MdFirstLine /\ UNCHANGED <<readVars, sortVars, cnvrtVars>>
    \/ MdFirstLineRaises /\ UNCHANGED <<readVars, sortVars, cnvrtVars>>
    \/ MdRowStep /\ UNCHANGED <<readVars, sortVars, cnvrtVars>>
    \/ MdReturn /\ UNCHANGED <<readVars, sortVars, cnvrtVars>>

-----------------------------------------------------------------------------
(* _cnvrt_amira_data_2numpy                                                *)

MaxDim     == 2
MaxPayload == 8

NL == 10

\* The byte values of a payload: the newline and a byte above 127.
Bytes == {NL, 200}

Payloads == SeqUpTo(Bytes, MaxPayload)

Dimensions ==
    {[x_dimension |-> x, y_dimension |-> y, z_dimension |-> z] :
        x \in 1..MaxDim, y \in 1..MaxDim, z \in 1..MaxDim}

\* The records handed to the decoder: what _create_md_dict can return for
\* some header, as far as the decoder reads it.  data_format is always
\* there (line 171); array_dimensions and data_type may be absent.
HeaderDicts ==
    {[EmptyDict EXCEPT !.software_src = <<"AmiraMesh">>,
                       !.data_format = <<f>>,
                       !.data_format_version = <<"2.1">>,
                       !.array_dimensions = ad,
                       !.data_type = dt] :
        f \in {"BINARY-LITTLE-ENDIAN", "BINARY", "ASCII"},
        ad \in {<<>>} \cup {<<d>> : d \in Dimensions},
        dt \in {<<>>, <<"float">>, <<"short">>, <<"ushort">>, <<"byte">>,
                <<"double">>}}

\* Lines 105-114.
am_format_dict ==
    [k \in {"BINARY-LITTLE-ENDIAN", "BINARY", "ASCII"} |->
        CASE k = "BINARY-LITTLE-ENDIAN" -> "<"
          [] k = "BINARY" -> ">"
          [] k = "ASCII" -> "unknown"]

am_dtype_dict ==
    [k \in {"float", "short", "ushort", "byte"} |->
        CASE k = "float" -> "f4"
          [] k = "short" -> "h4"
          [] k = "ushort" -> "H4"
          [] k = "byte" -> "b"]

\* numpy.dtype(order + code): 'f4' is the 4-byte float and 'b' the signed
\* byte; 'h4' and 'H4' name no type (h and H are 2-byte codes that take no
\* size) and numpy raises TypeError, "data type not understood".
DTypeUnderstood(code) == code \in {"f4", "b"}
ItemSize(code) == IF code = "f4" THEN 4 ELSE 1

\* One element from its bytes, first byte first.  A float is kept as its 32
\* bits, written as four bytes with the most significant first, so taken in
\* the byte order given; a byte is two's complement.
Element(bs, order, code) ==
    IF code = "f4"
    THEN IF order = "<" THEN <<bs[4], bs[3], bs[2], bs[1]>> ELSE bs
    ELSE IF bs[1] >= 128 THEN bs[1] - 256 ELSE bs[1]

\* The zero of the element type.
Zero(code) == IF code = "f4" THEN <<0, 0, 0, 0>> ELSE 0

\* numpy.fromstring(data, order + code): the exception raised ("" for none)
\* and the flat array.  The length of data must be a multiple of the
\* element size.
FromString(data, order, code) ==
    IF ~DTypeUnderstood(code) THEN [raised |-> "TypeError", flat |-> <<>>]
    ELSE IF Len(data) % ItemSize(code) # 0
    THEN [raised |-> "ValueError", flat |-> <<>>]
    ELSE [raised |-> "",
          flat |-> [e \in 1..(Len(data) \div ItemSize(code)) |->
                      Element(SubSeq(data, (e - 1) * ItemSize(code) + 1,
                                     e * ItemSize(code)), order, code)]]

\* ndarray.resize(Zdim, Ydim, Xdim), in place: the first Z*Y*X elements in
\* C order, zeros where the array had fewer.  No size is refused.
Resized(flat, zero, n) == [e \in 1..n |-> IF e <= Len(flat) THEN flat[e] ELSE zero]

Resize(flat, zero, Z, Y, X) ==
    LET r == Resized(flat, zero, Z * Y * X) IN
    [k \in 1..Z |-> [j \in 1..Y |-> [i \in 1..X |->
        r[(k - 1) * Y * X + (j - 1) * X + (i - 1) + 1]]]]

\* A variant of ZFlip that leaves the array as it is.
ZFlipNone(arr) == arr

\* flt_values[::-1, ..., ...]: the slices along axis 0 in reverse order (the
\* numpy of the time reads the second Ellipsis as a full slice).
ZFlip(arr) == [k \in 1..Len(arr) |-> arr[Len(arr) + 1 - k]]

Raise(name, ds) == [called |-> TRUE, raised |-> name, data_strip |-> ds, array |-> <<>>]

\* The whole function: the exception raised ("" for none), the local
\* data_strip (<<>> when line 103 was not reached) and the array returned.
Cnvrt(data, hd, flip_Z) ==
    IF hd.array_dimensions = <<>> THEN Raise("KeyError", <<>>)
    ELSE
    LET Zdim == hd.array_dimensions[1].z_dimension
        Ydim == hd.array_dimensions[1].y_dimension
        Xdim == hd.array_dimensions[1].x_dimension
        data_strip == Strip(data, NL)
    IN
    IF hd.data_format = <<>> THEN Raise("KeyError", data_strip)
    ELSE IF hd.data_format[1] # "BINARY-LITTLE-ENDIAN"
    THEN Raise("UnboundLocalError", data_strip)
    ELSE IF hd.data_type = <<>> \/ hd.data_type[1] \notin DOMAIN am_dtype_dict
    THEN Raise("KeyError", data_strip)
    ELSE
    LET got == FromString(data_strip, am_format_dict[hd.data_format[1]],
                          am_dtype_dict[hd.data_type[1]])
        flt_values == Resize(got.flat, Zero(am_dtype_dict[hd.data_type[1]]),
                             Zdim, Ydim, Xdim)
    IN
    IF got.raised # "" THEN Raise(got.raised, data_strip)
    ELSE [called |-> TRUE, raised |-> "", data_strip |-> data_strip,
          array |-> IF flip_Z THEN ZFlip(flt_values) ELSE flt_values]

NotCalled == [called |-> FALSE, raised |-> "", data_strip |-> <<>>, array |-> <<>>]

InitCnvrt ==
    /\ payload \in Payloads
    /\ header_dict \in HeaderDicts
    /\ output = [f \in BOOLEAN |-> NotCalled]

IdleCnvrt ==
    /\ payload = <<>>
    /\ header_dict = EmptyDict
    /\ output = [f \in BOOLEAN |-> NotCalled]

\* A call of the function on the payload and the record, with either flip_Z.
CnvrtCall ==
    \E flip_Z \in BOOLEAN :
        /\ ~output[flip_Z].called
        /\ output' = [output EXCEPT ![flip_Z] = Cnvrt(payload, header_dict, flip_Z)]
        /\ UNCHANGED <<payload, header_dict>>

NextCnvrt == CnvrtCall /\ UNCHANGED <<readVars, sortVars, mdVars>>

-----------------------------------------------------------------------------
(* The specifications, one for each function.                              *)

InitSpecRead == InitRead /\ IdleSort /\ IdleMd /\ IdleCnvrt
SpecRead == InitSpecRead /\ [][NextRead]_vars

InitSpecSort == IdleRead /\ InitSort /\ IdleMd /\ IdleCnvrt
SpecSort == InitSpecSort /\ [][NextSort]_vars

InitSpecMd == IdleRead /\ IdleSort /\ InitMd /\ IdleCnvrt
SpecMd == InitSpecMd /\ [][NextMd]_vars

InitSpecCnvrt == IdleRead /\ IdleSort /\ IdleMd /\ InitCnvrt
SpecCnvrt == InitSpecCnvrt /\ [][NextCnvrt]_vars

-----------------------------------------------------------------------------
(* Properties of _read_amira, under SpecRead.                              *)

HasSentinel(f) == Sentinel \in Range(f)

\* How many times readline() has returned '' (end of file) into am_header.
EofReads(h) == Cardinality({i \in 1..Len(h) : h[i] = ""})

\* C1: on a file without the sentinel line the scan ends at end of file:
\* once readline() has returned '' the function has failed with
\* MalformedFileError and reads no further.
C1_ScanEndsAtEof ==
    (~HasSentinel(file) /\ EofReads(am_header) >= 1) => rpc = "MalformedFileError"

-----------------------------------------------------------------------------
(* Properties of _sort_amira_header, under SpecSort.                       *)

Whitespace == {" ", "\t", "\r", "\n"}

Min(S) == CHOOSE x \in S : \A y \in S : x <= y
Max(S) == CHOOSE x \in S : \A y \in S : x >= y

\* The k-th smallest element of a set of numbers.
Kth(S, k) == CHOOSE x \in S : Cardinality({y \in S : y < x}) = k - 1

\* The maximal runs of characters of s that are not separators, in order.
Runs(s, seps) ==
    LET starts == {i \in 1..Len(s) : s[i] \notin seps /\ (i = 1 \/ s[i - 1] \in seps)}
        EndOf(i) == Min({j \in i..Len(s) : j = Len(s) \/ s[j + 1] \in seps})
    IN [k \in 1..Cardinality(starts) |->
            SubSeq(s, Kth(starts, k), EndOf(Kth(starts, k)))]

\* s without the newlines before its first and after its last other character.
TrimNewlines(s) ==
    LET keep == {i \in 1..Len(s) : s[i] # "\n"} IN
    IF keep = {} THEN <<>> ELSE SubSeq(s, Min(keep), Max(keep))

NonEmptyOnly(l) == SelectSeq(l, LAMBDA e : Len(e) > 0)

AllTokens(hl) == UNION {Range(hl[r]) : r \in 1..Len(hl)}

-----------------------------------------------------------------------------
(* Properties of _create_md_dict, under SpecMd.                            *)

Keywords == {"define", "Content", "CoordType", "BoundingBox", "Units"}

\* The permutations of 1..n that leave 1 in place, for each header length.
Orders ==
    [n \in 1..(MaxBodyRows + 1) |->
        {p \in [1..n -> 1..n] : p[1] = 1 /\ \A i, j \in 1..n : p[i] = p[j] => i = j}]

Permuted(hl, p) == [i \in 1..Len(hl) |-> hl[p[i]]]

\* The line after line i of hl, as <<line>>, or <<>> when i is the last.
Follower(hl, i) == IF i < Len(hl) THEN <<hl[i + 1]>> ELSE <<>>

\* Every line with the token Units has in Permuted(hl, p) the follower it
\* has in hl.
UnitsAdjacencyKept(hl, p) ==
    \A j \in 1..Len(hl) :
        "Units" \in Range(hl[p[j]]) => Follower(Permuted(hl, p), j) = Follower(hl, p[j])

\* No directive keyword is in more than one line of hl.
KeywordsOnce(hl) ==
    \A kw \in Keywords : Cardinality({i \in 1..Len(hl) : kw \in Range(hl[i])}) <= 1

\* C6 as claimed, with the first line (which is not a directive line) left
\* first: the same lines in another order, each Units line keeping its
\* follower, give the same record.
C6_OrderIndependent ==
    mpc = "done" =>
        \A p \in Orders[Len(header_list)] :
            UnitsAdjacencyKept(header_list, p) =>
                CreateMdDict(Permuted(header_list, p)) = [raised |-> "", dict |-> md_dict]

\* C6, amended: the same first line and the same lines after it in another
\* order, no directive keyword in more than one line, each line with Units
\* keeping its follower (or staying last), give the same record.
C6_OrderIndependentOnce ==
    mpc = "done" =>
        \A p \in Orders[Len(header_list)] :
            (KeywordsOnce(header_list) /\ UnitsAdjacencyKept(header_list, p)) =>
                CreateMdDict(Permuted(header_list, p)) = [raised |-> "", dict |-> md_dict]

\* A header of four lines was read whose last two lines can be exchanged
\* and which set the dimensions and the data type.
C6_Witness ==
    /\ mpc = "done"
    /\ Len(header_list) = 4
    /\ KeywordsOnce(header_list)
    /\ md_dict.array_dimensions # <<>>
    /\ md_dict.data_type # <<>>
    /\ header_list[3] # header_list[4]
    /\ \E p \in Orders[4] :
          p[3] = 4 /\ p[4] = 3 /\ UnitsAdjacencyKept(header_list, p)

\* C7: extraction never raises, whatever is missing from the header, and a
\* record without data_type fails when it is decoded, with the error of a
\* missing field (the KeyError of the lookup).
C7_ExtractionNeverRaises ==
    /\ mpc # "IndexError"
    /\ (mpc = "done" /\ md_dict.data_type = <<>>) =>
          \A p \in SeqUpTo(Bytes, 1) : Cnvrt(p, md_dict, TRUE).raised = "KeyError"

\* The loop has just run on a line on which none of the four try blocks
\* before that of Units ran to its end.
AfterUnitsRow ==
    /\ mpc \in {"loop", "done"}
    /\ row >= 1
    /\ LET t == header_list[row] IN
          ~DefineOk(t) /\ ~ContentOk(t) /\ ~CoordTypeOk(t) /\ ~BoundingBoxOk(t)

\* C8 as claimed: after the loop has run on a line with Units at index i
\* (a token at i + 2, a next line), units is the token at i + 2 and
\* coordinates is the first token of the next line.
C8_CoordinatesFirstToken ==
    AfterUnitsRow =>
        LET t == header_list[row] IN
        \A i \in 1..Len(t) :
            (t[i] = "Units" /\ i + 2 <= Len(t) /\ row + 1 <= Len(header_list)) =>
                /\ md_dict.units = <<t[i + 2]>>
                /\ md_dict.coordinates = <<header_list[row + 1][1]>>

\* C8, amended: after the loop has run on a line whose first Units is at
\* index i with a token at i + 2, units is that token, and when the next
\* line exists and has two tokens coordinates is its second token (index 1
\* counting from 0).
C8_CoordinatesSecondToken ==
    AfterUnitsRow =>
        LET t == header_list[row]
            i == Index(t, "Units")
        IN (i > 0 /\ i + 2 <= Len(t)) =>
              /\ md_dict.units = <<t[i + 2]>>
              /\ (row + 1 <= Len(header_list) /\ Len(header_list[row + 1]) >= 2) =>
                    md_dict.coordinates = <<header_list[row + 1][2]>>

\* The loop has just run on a Units line followed by a line of two
\* different tokens.
C8_Witness ==
    /\ AfterUnitsRow
    /\ UnitsOk(header_list[row])
    /\ row + 1 <= Len(header_list)
    /\ Len(header_list[row + 1]) >= 2
    /\ header_list[row + 1][1] # header_list[row + 1][2]
    /\ md_dict.coordinates # <<>>

-----------------------------------------------------------------------------
(* Properties of _cnvrt_amira_data_2numpy, under SpecCnvrt.                *)

HasDimensions == header_dict.array_dimensions # <<>>

Xd == header_dict.array_dimensions[1].x_dimension
Yd == header_dict.array_dimensions[1].y_dimension
Zd == header_dict.array_dimensions[1].z_dimension

\* The call reaches numpy.fromstring.
ReachesFromString ==
    /\ HasDimensions
    /\ header_dict.data_format = <<"BINARY-LITTLE-ENDIAN">>
    /\ header_dict.data_type # <<>>
    /\ header_dict.data_type[1] \in DOMAIN am_dtype_dict

\* What numpy.fromstring gives there: the flat element sequence.
Decoded == FromString(Strip(payload, NL), "<", am_dtype_dict[header_dict.data_type[1]])

\* C2: when the flat sequence has not exactly x*y*z elements the call fails
\* with ShapeMismatchError.
C2_CountMismatchRaises ==
    \A f \in BOOLEAN :
        (/\ output[f].called
         /\ ReachesFromString
         /\ Decoded.raised = ""
         /\ Len(Decoded.flat) # Xd * Yd * Zd)
        => output[f].raised = "ShapeMismatchError"

\* C3: an array that is returned has shape (Z, Y, X), and without the flip
\* its element [k][j][i] is element k*Y*X + j*X + i of the flat sequence
\* (indices from 0).
C3_ShapeAndOrder ==
    \A f \in BOOLEAN :
        (output[f].called /\ output[f].raised = "") =>
            /\ Len(output[f].array) = Zd
            /\ \A k \in 1..Zd :
                  /\ Len(output[f].array[k]) = Yd
                  /\ \A j \in 1..Yd : Len(output[f].array[k][j]) = Xd
            /\ ~f => \A k \in 1..Zd, j \in 1..Yd, i \in 1..Xd :
                  LET e == (k - 1) * Yd * Xd + (j - 1) * Xd + (i - 1) + 1 IN
                  /\ e <= Len(Decoded.flat)
                  /\ output[f].array[k][j][i] = Decoded.flat[e]

\* C4: when both calls return, slice k of the flipped array is slice Z-1-k
\* of the unflipped one, elements in the same places.
C4_FlipReversesZ ==
    (/\ output[TRUE].called /\ output[TRUE].raised = ""
     /\ output[FALSE].called /\ output[FALSE].raised = "")
    => /\ Len(output[TRUE].array) = Len(output[FALSE].array)
       /\ \A k \in 1..Zd, j \in 1..Yd, i \in 1..Xd :
             output[TRUE].array[k][j][i] = output[FALSE].array[Zd + 1 - k][j][i]

\* Both calls returned an array of two slices that differ, each of more
\* than one element.
C4_Witness ==
    /\ output[TRUE].called /\ output[TRUE].raised = ""
    /\ output[FALSE].called /\ output[FALSE].raised = ""
    /\ Zd = 2
    /\ Xd * Yd >= 2
    /\ output[FALSE].array[1] # output[FALSE].array[2]

\* C5: with data_format BINARY or ASCII the call fails with
\* UnsupportedEncodingError.
C5_UnsupportedEncodingRaises ==
    \A f \in BOOLEAN :
        (/\ output[f].called
         /\ HasDimensions
         /\ header_dict.data_format[1] \in {"BINARY", "ASCII"})
        => output[f].raised = "UnsupportedEncodingError"

\* C9: when an array is returned, the bytes that reached element
\* interpretation are the payload without its trailing newlines: nothing
\* else was removed, the newlines at its start included.
C9_OnlyTrailingStripped ==
    \A f \in BOOLEAN :
        (output[f].called /\ output[f].raised = "") =>
            output[f].data_strip = RStrip(payload, NL)

====
